---- MODULE Spec2Model ----
(***************************************************************************)
(* Verification model of the export-invoice risk engine                    *)
(* (src/processor.py) and of the way src/main.py drives it.                *)
(*                                                                         *)
(* Python values are tagged records [t, n, s]:                             *)
(*   t = "none"   None                                                     *)
(*   t = "str"    a str, s = its characters (one-character strings)        *)
(*   t = "int"    an int, n = its value                                    *)
(*   t = "float"  a float, n = its value; non-integral floats are kept by  *)
(*                their magnitude rounded away from zero, which preserves  *)
(*                sign and zero-ness, the only things the program reads    *)
(*   t = "nan"    the float nan                                            *)
(***************************************************************************)
EXTENDS Integers, Sequences, FiniteSets, TLC

VARIABLES
    SYSTEM_STATS,      \* processor.py:16  module-global counters
    OUTCOME_FEEDBACK,  \* processor.py:22  module-global feedback log
    invoice,           \* the invoice dict the caller holds (result["invoice_data"])
    call,              \* the last call made on the processor and what it returned
    evaluations,       \* history: number of assess_export_risk evaluations so far
    pc,                \* concurrent callers: position of each caller in assess_export_risk
    frame,             \* concurrent callers: locals of each caller's running call
    completed          \* history: completed concurrent calls per counter condition

vars == <<SYSTEM_STATS, OUTCOME_FEEDBACK, invoice, call, evaluations, pc, frame, completed>>

seqVars == <<SYSTEM_STATS, OUTCOME_FEEDBACK, invoice, call, evaluations>>
concVars == <<pc, frame, completed>>

(***************************************************************************)
(* Bounds of the model.                                                    *)
(***************************************************************************)
MaxCalls == 2       \* state-changing calls in one sequential run
MaxConcCalls == 2   \* calls each concurrent caller makes

(***************************************************************************)
(* Python values.                                                          *)
(***************************************************************************)
None == [t |-> "none", n |-> 0, s |-> <<>>]
PyStr(cs) == [t |-> "str", n |-> 0, s |-> cs]
PyInt(k) == [t |-> "int", n |-> k, s |-> <<>>]
PyFloat(k) == [t |-> "float", n |-> k, s |-> <<>>]
NaN == [t |-> "nan", n |-> 0, s |-> <<>>]

\* Python truthiness (`if x:`, `not x`): None, "", 0 and 0.0 are falsy.
Truthy(v) ==
    CASE v.t = "none" -> FALSE
      [] v.t = "str" -> Len(v.s) > 0
      [] v.t = "int" -> v.n # 0
      [] v.t = "float" -> v.n # 0
      [] v.t = "nan" -> TRUE

Digits == <<"0", "1", "2", "3", "4", "5", "6", "7", "8", "9">>
DigitChars == {Digits[i] : i \in 1..10}
DigitValue(c) == (CHOOSE i \in 1..10 : Digits[i] = c) - 1

RECURSIVE NatToChars(_)
NatToChars(k) ==
    IF k < 10 THEN <<Digits[k + 1]>>
    ELSE NatToChars(k \div 10) \o <<Digits[(k % 10) + 1]>>

IntToChars(k) == IF k < 0 THEN <<"-">> \o NatToChars(-k) ELSE NatToChars(k)

\* str(val) of line 32.
str(val) ==
    CASE val.t = "str" -> val.s
      [] val.t = "int" -> IntToChars(val.n)
      [] val.t = "float" -> IntToChars(val.n) \o <<".", "0">>
      [] val.t = "nan" -> <<"n", "a", "n">>
      [] val.t = "none" -> <<"N", "o", "n", "e">>

\* .replace(",", "") of line 32.
RECURSIVE replace_comma(_)
replace_comma(cs) ==
    IF cs = <<>> THEN <<>>
    ELSE IF Head(cs) = "," THEN replace_comma(Tail(cs))
    ELSE <<Head(cs)>> \o replace_comma(Tail(cs))

Whitespace == {" ", "\t"}

RECURSIVE lstrip(_)
lstrip(cs) ==
    IF cs # <<>> /\ Head(cs) \in Whitespace THEN lstrip(Tail(cs)) ELSE cs

RECURSIVE rstrip(_)
rstrip(cs) ==
    IF cs # <<>> /\ cs[Len(cs)] \in Whitespace
    THEN rstrip(SubSeq(cs, 1, Len(cs) - 1)) ELSE cs

\* .strip() of line 32.
strip(cs) == rstrip(lstrip(cs))

RECURSIVE CharsToNat(_)
CharsToNat(cs) ==
    IF cs = <<>> THEN 0
    ELSE 10 * CharsToNat(SubSeq(cs, 1, Len(cs) - 1)) + DigitValue(cs[Len(cs)])

AllDigits(cs) == \A i \in 1..Len(cs) : cs[i] \in DigitChars

\* float(text) of line 32 on text without "e", "_", "inf": an optional sign,
\* then "nan" or digits with an optional fraction.  Returns None where
\* Python raises ValueError.
float(cs) ==
    LET signed == cs # <<>> /\ Head(cs) \in {"+", "-"}
        neg == cs # <<>> /\ Head(cs) = "-"
        body == IF signed THEN Tail(cs) ELSE cs
        dots == {i \in 1..Len(body) : body[i] = "."}
        dot == IF dots = {} THEN Len(body) + 1 ELSE CHOOSE i \in dots : TRUE
        whole == SubSeq(body, 1, dot - 1)
        frac == SubSeq(body, dot + 1, Len(body))
        magnitude == CharsToNat(whole)
                       + (IF \E i \in 1..Len(frac) : frac[i] # "0" THEN 1 ELSE 0)
    IN  IF body = <<"n", "a", "n">> THEN NaN
        ELSE IF /\ Cardinality(dots) <= 1
                /\ AllDigits(whole) /\ AllDigits(frac)
                /\ Len(whole) + Len(frac) > 0
             THEN PyFloat(IF neg THEN -magnitude ELSE magnitude)
        ELSE None

\* A mutant of safe_number: a failed parse degrades to zero.
safe_number_zero(val) ==
    IF val.t = "none" THEN None
    ELSE LET r == float(strip(replace_comma(str(val))))
         IN IF r = None THEN PyFloat(0) ELSE r

safe_number(val) ==
    IF val.t = "none" THEN None
    ELSE float(strip(replace_comma(str(val))))

(***************************************************************************)
(* Invoice dicts.  Only the keys some operation reads are kept:            *)
(* iec_code, hsn_code, incoterms, currency, total_amount.                  *)
(***************************************************************************)
IEC10 == PyStr(<<"0", "1", "2", "3", "4", "5", "6", "7", "8", "9">>)
HSN6 == PyStr(<<"8", "5", "0", "4", "3", "1">>)
FOB == PyStr(<<"F", "O", "B">>)
XYZ == PyStr(<<"X", "Y", "Z">>)
INR == PyStr(<<"I", "N", "R">>)
USD == PyStr(<<"U", "S", "D">>)
Unchanged == PyStr(<<"U", "N", "C", "H", "A", "N", "G", "E", "D">>)
EmptyStr == PyStr(<<>>)

\* total_amount values a caller can put in a record: numbers, and text with
\* separators, padding or garbage in it.
TotalValues ==
    { PyInt(0), PyFloat(-5),
      PyStr(<<"1", ",", "0", "0", "0">>),
      PyStr(<<" ", "0", ".", "0", " ">>),
      PyStr(<<"a", "b", "c">>) }

\* Records a caller builds itself: empty strings where a field is missing.
InvoiceRecords ==
    [ iec_code : {EmptyStr, IEC10},
      hsn_code : {EmptyStr, HSN6},
      incoterms : {EmptyStr, FOB},
      currency : {None, INR},
      total_amount : TotalValues ]

(***************************************************************************)
(* RISK ENGINE, processor.py:148-196.                                      *)
(***************************************************************************)
\* A mutant of penalize: the score is overwritten instead of accumulated.
penalize_overwrite(acc, points, reason, fix) ==
    [ score |-> points,
      reasons |-> Append(acc.reasons, reason),
      fixes |-> Append(acc.fixes, fix) ]

\* A mutant of penalize: the fix is put in front of the list.
penalize_prepend_fix(acc, points, reason, fix) ==
    [ score |-> acc.score + points,
      reasons |-> Append(acc.reasons, reason),
      fixes |-> <<fix>> \o acc.fixes ]

\* The closure of lines 152-156 on the locals score, reasons, fixes.
penalize(acc, points, reason, fix) ==
    [ score |-> acc.score + points,
      reasons |-> Append(acc.reasons, reason),
      fixes |-> Append(acc.fixes, fix) ]

\* A mutant of level: the Medium tier takes in 60.
level_inclusive(score) ==
    IF score < 30 THEN "Low" ELSE IF score <= 60 THEN "Medium" ELSE "High"

\* Line 176.
level(score) ==
    IF score < 30 THEN "Low" ELSE IF score < 60 THEN "Medium" ELSE "High"

\* Lines 177-181.
decision(lv) ==
    IF lv = "Low" THEN "SAFE_TO_SHIP"
    ELSE IF lv = "Medium" THEN "REVIEW_BEFORE_SHIPPING"
    ELSE "DO_NOT_SHIP"

\* A mutant of hsn_missing: the test is inverted.
hsn_present(inv) == Truthy(inv.hsn_code)

\* Line 161.
hsn_missing(inv) == ~Truthy(inv.hsn_code)

\* Line 171: `total is None or total <= 0` (nan <= 0 is False).
value_invalid(total) == total = None \/ (total.t = "float" /\ total.n <= 0)

\* Line 183.
risky_shipment(lv) == lv \in {"Medium", "High"}

\* A mutant of hold_predicted: the threshold is 60.
hold_predicted_60(score) == score >= 60

\* A mutant of hold_predicted: the threshold is 20.
hold_predicted_20(score) == score >= 20

\* Line 185.
hold_predicted(score) == score >= 70

Min(a, b) == IF a < b THEN a ELSE b

\* Lines 149-181 and 188-196: the returned dict.
risk_of(inv) ==
    LET a0 == [score |-> 0, reasons |-> <<>>, fixes |-> <<>>]
        a1 == IF ~Truthy(inv.iec_code)
              THEN penalize(a0, 25, "IEC missing", "Add valid IEC") ELSE a0
        a2 == IF hsn_missing(inv)
              THEN penalize(a1, 20, "HSN missing", "Declare correct HSN") ELSE a1
        a3 == IF ~Truthy(inv.incoterms)
              THEN penalize(a2, 15, "Incoterms missing", "Specify FOB / CIF") ELSE a2
        a4 == IF inv.currency = INR
              THEN penalize(a3, 20, "Export invoiced in INR",
                            "Use permitted foreign currency")
              ELSE a3
        total == safe_number(inv.total_amount)
        a5 == IF value_invalid(total)
              THEN penalize(a4, 20, "Invoice value invalid", "Correct invoice total")
              ELSE a4
        score == Min(a5.score, 100)
        lv == level(score)
    IN  [ risk_score |-> score,
          risk_level |-> lv,
          confidence |-> "Medium",
          shipment_decision |-> decision(lv),
          risk_reasons |-> a5.reasons,
          fix_suggestions |-> a5.fixes,
          risk_summary |-> <<lv, " customs risk based on compliance signals">> ]

\* Lines 183-186: the update of the module-global counters.
stats_after(stats, risk) ==
    LET s1 == IF risky_shipment(risk.risk_level)
              THEN [stats EXCEPT !.risky_shipments = @ + 1] ELSE stats
    IN  IF hold_predicted(risk.risk_score)
        THEN [s1 EXCEPT !.holds_predicted = @ + 1] ELSE s1

\* The whole call: the returned dict and the counters it leaves behind.
assess_export_risk(inv, stats) ==
    LET risk == risk_of(inv)
    IN  [risk |-> risk, stats |-> stats_after(stats, risk)]

(***************************************************************************)
(* WHAT-IF SIMULATOR, processor.py:201-215.  Dicts are objects on a heap:  *)
(* `invoice` names the caller's dict, `simulated` the local one.           *)
(***************************************************************************)
\* A mutant of dict_copy: no copy is made, the local names the caller's dict.
dict_alias(heap, ref) == [heap |-> heap, ref |-> ref]

\* Line 202: invoice.copy() allocates a new dict with the same items.
dict_copy(heap, ref) ==
    [ heap |-> [r \in DOMAIN heap \cup {"simulated"} |->
                    IF r = "simulated" THEN heap[ref] ELSE heap[r]],
      ref |-> "simulated" ]

\* A mutant of overrides_total: only None means "no override".
overrides_total_not_none(new_value) == new_value # None

\* Line 204: `if new_value:`.
overrides_total(new_value) == Truthy(new_value)

simulate_changes(inv, new_value, new_incoterm, stats) ==
    LET c == dict_copy([r \in {"invoice"} |-> inv], "invoice")
        h1 == IF overrides_total(new_value)
              THEN [c.heap EXCEPT ![c.ref].total_amount = new_value] ELSE c.heap
        h2 == IF new_incoterm # Unchanged
              THEN [h1 EXCEPT ![c.ref].incoterms = new_incoterm] ELSE h1
        a == assess_export_risk(h2[c.ref], stats)
    IN  [ ret |-> [risk_score |-> a.risk.risk_score, summary |-> a.risk.risk_summary],
          invoice |-> h2["invoice"],
          stats |-> a.stats ]

(***************************************************************************)
(* CUSTOMS OFFICER VIEW, processor.py:220-235.                             *)
(***************************************************************************)
RECURSIVE join(_, _)
join(sep, items) ==
    IF items = <<>> THEN <<>>
    ELSE IF Len(items) = 1 THEN items
    ELSE <<Head(items), sep>> \o join(sep, Tail(items))

customs_officer_view(inv) ==
    LET i1 == IF ~Truthy(inv.hsn_code) THEN <<"HSN not declared">> ELSE <<>>
        i2 == IF ~Truthy(inv.incoterms) THEN Append(i1, "Incoterms missing") ELSE i1
        issues == IF inv.currency = INR
                  THEN Append(i2, "Export invoiced in INR") ELSE i2
    IN  IF issues # <<>>
        THEN <<"A customs officer may question this shipment because ">>
                 \o join("; ", issues)
        ELSE <<"Invoice appears standard with no obvious red flags.">>

(***************************************************************************)
(* MAIN PIPELINE, processor.py:248-272.  Text extraction and the language  *)
(* model are outside the program: what they return is an input.            *)
(***************************************************************************)
\* What _basic_field_extract (lines 90-110) can return for the keys kept:
\* a regex match is never empty, total_amount is always None.
BasicRecords ==
    [ iec_code : {None, IEC10},
      hsn_code : {None, HSN6},
      incoterms : {None, FOB},
      currency : {INR, USD},
      total_amount : {None} ]

\* What _ai_structure (lines 115-143) can return: None, or a dict.
AiData ==
    { None } \cup
    [ iec_code : {EmptyStr},
      hsn_code : {None},
      incoterms : {None},
      currency : {None, INR},
      total_amount : {PyInt(5000)} ]

Keys == {"iec_code", "hsn_code", "incoterms", "currency", "total_amount"}

\* Line 258: `v not in (None, "", [])`.
overlays(v) == v # None /\ v # EmptyStr

\* Lines 253-259.
merged(basic, ai_data) ==
    IF ai_data = None THEN basic
    ELSE [k \in Keys |-> IF overlays(ai_data[k]) THEN ai_data[k] ELSE basic[k]]

process_pdf(basic, ai_data, stats) ==
    LET s1 == [stats EXCEPT !.invoices_analyzed = @ + 1]
        inv == merged(basic, ai_data)
        a == assess_export_risk(inv, s1)
    IN  [ ret |-> [ invoice_type |-> "Commercial",
                    invoice_data |-> inv,
                    risk_assessment |-> a.risk,
                    customs_officer_view |-> customs_officer_view(inv),
                    system_stats |-> a.stats,
                    extraction_method |-> "ai+rules" ],
          stats |-> a.stats ]

(***************************************************************************)
(* The sequential program: one caller, one call at a time.                 *)
(***************************************************************************)
\* The sessions that can call the shared processor at the same time; they
\* stay idle in the sequential program.
Threads == {"s1", "s2"}

Init ==
    /\ SYSTEM_STATS = [invoices_analyzed |-> 0, risky_shipments |-> 0,
                       holds_predicted |-> 0]
    /\ OUTCOME_FEEDBACK = <<>>
    /\ invoice = [k \in Keys |-> None]
    /\ call = [op |-> "none"]
    /\ evaluations = 0
    /\ pc = [t \in Threads |-> "idle"]
    /\ frame = [t \in Threads |-> [score |-> 0, level |-> "Low", tmp |-> 0, calls |-> 0]]
    /\ completed = [risky |-> 0, holds |-> 0]

\* main.py:221: an upload is analysed; the caller keeps result["invoice_data"].
ProcessPdf ==
    /\ evaluations + Len(OUTCOME_FEEDBACK) < MaxCalls
    /\ \E basic \in BasicRecords, ai_data \in AiData :
          LET r == process_pdf(basic, ai_data, SYSTEM_STATS)
          IN  /\ SYSTEM_STATS' = r.stats
              /\ invoice' = r.ret.invoice_data
              /\ call' = [op |-> "process_pdf", ret |-> r.ret]
    /\ evaluations' = evaluations + 1
    /\ UNCHANGED <<OUTCOME_FEEDBACK, concVars>>

\* A caller assesses a record of its own and keeps it.
Assess ==
    /\ evaluations + Len(OUTCOME_FEEDBACK) < MaxCalls
    /\ \E inv \in InvoiceRecords :
          LET r == assess_export_risk(inv, SYSTEM_STATS)
          IN  /\ SYSTEM_STATS' = r.stats
              /\ invoice' = inv
              /\ call' = [op |-> "assess_export_risk", ret |-> r.risk]
    /\ evaluations' = evaluations + 1
    /\ UNCHANGED <<OUTCOME_FEEDBACK, concVars>>

\* main.py:129-146: the widget's value is a float >= 0; the API also takes None.
NewValues == {None, PyFloat(0), PyFloat(100)}
NewIncoterms == {Unchanged, XYZ, EmptyStr}

Simulate ==
    /\ evaluations + Len(OUTCOME_FEEDBACK) < MaxCalls
    /\ \E new_value \in NewValues, new_incoterm \in NewIncoterms :
          LET r == simulate_changes(invoice, new_value, new_incoterm, SYSTEM_STATS)
          IN  /\ SYSTEM_STATS' = r.stats
              /\ invoice' = r.invoice
              /\ call' = [op |-> "simulate_changes", new_value |-> new_value,
                          new_incoterm |-> new_incoterm, ret |-> r.ret]
    /\ evaluations' = evaluations + 1
    /\ UNCHANGED <<OUTCOME_FEEDBACK, concVars>>

CustomsOfficerView ==
    /\ call' = [op |-> "customs_officer_view", ret |-> customs_officer_view(invoice)]
    /\ UNCHANGED <<SYSTEM_STATS, OUTCOME_FEEDBACK, invoice, evaluations, concVars>>

\* main.py:159-170: the outcomes of the radio.
Outcomes == {"Cleared smoothly", "Held / Rejected"}

\* Lines 240-243.
StoreOutcomeFeedback ==
    /\ evaluations + Len(OUTCOME_FEEDBACK) < MaxCalls
    /\ \E outcome \in Outcomes :
          OUTCOME_FEEDBACK' =
              Append(OUTCOME_FEEDBACK, [invoice_id |-> "id", outcome |-> outcome])
    /\ call' = [op |-> "store_outcome_feedback"]
    /\ UNCHANGED <<SYSTEM_STATS, invoice, evaluations, concVars>>

Next ==
    \/ ProcessPdf
    \/ Assess
    \/ Simulate
    \/ CustomsOfficerView
    \/ StoreOutcomeFeedback

Spec == Init /\ [][Next]_vars

(***************************************************************************)
(* Concurrent callers.  main.py:60-62 caches one processor for every       *)
(* session, each session runs in its own thread, and SYSTEM_STATS is       *)
(* module-global.  `d[k] += 1` (lines 184, 186) is a load of the item, an  *)
(* add and a store of the item; another thread can run between the load    *)
(* and the store.  Lines 149-181 touch locals only.                        *)
(***************************************************************************)
ConcRecords ==
    { [k \in Keys |-> None],
      [iec_code |-> IEC10, hsn_code |-> HSN6, incoterms |-> None,
       currency |-> INR, total_amount |-> PyFloat(-5)],
      [iec_code |-> IEC10, hsn_code |-> HSN6, incoterms |-> FOB,
       currency |-> USD, total_amount |-> PyInt(5000)] }

\* Lines 148-181: the call starts and computes score and level.
Enter(t) ==
    /\ pc[t] = "idle"
    /\ frame[t].calls < MaxConcCalls
    /\ \E inv \in ConcRecords :
          frame' = [frame EXCEPT ![t].score = risk_of(inv).risk_score,
                                 ![t].level = risk_of(inv).risk_level]
    /\ pc' = [pc EXCEPT ![t] = "L183"]
    /\ UNCHANGED <<seqVars, completed>>

\* Lines 183-184: the test holds, the item is loaded.
Load184(t) ==
    /\ pc[t] = "L183"
    /\ risky_shipment(frame[t].level)
    /\ frame' = [frame EXCEPT ![t].tmp = SYSTEM_STATS.risky_shipments]
    /\ pc' = [pc EXCEPT ![t] = "L184"]
    /\ UNCHANGED <<seqVars, completed>>

\* Line 183: the test fails.
Skip184(t) ==
    /\ pc[t] = "L183"
    /\ ~risky_shipment(frame[t].level)
    /\ pc' = [pc EXCEPT ![t] = "L185"]
    /\ UNCHANGED <<seqVars, frame, completed>>

\* Line 184: the sum is stored.
Store184(t) ==
    /\ pc[t] = "L184"
    /\ SYSTEM_STATS' = [SYSTEM_STATS EXCEPT !.risky_shipments = frame[t].tmp + 1]
    /\ pc' = [pc EXCEPT ![t] = "L185"]
    /\ UNCHANGED <<OUTCOME_FEEDBACK, invoice, call, evaluations, frame, completed>>

\* Lines 185-186: the test holds, the item is loaded.
Load186(t) ==
    /\ pc[t] = "L185"
    /\ hold_predicted(frame[t].score)
    /\ frame' = [frame EXCEPT ![t].tmp = SYSTEM_STATS.holds_predicted]
    /\ pc' = [pc EXCEPT ![t] = "L186"]
    /\ UNCHANGED <<seqVars, completed>>

\* Line 185: the test fails.
Skip186(t) ==
    /\ pc[t] = "L185"
    /\ ~hold_predicted(frame[t].score)
    /\ pc' = [pc EXCEPT ![t] = "L188"]
    /\ UNCHANGED <<seqVars, frame, completed>>

\* Line 186: the sum is stored.
Store186(t) ==
    /\ pc[t] = "L186"
    /\ SYSTEM_STATS' = [SYSTEM_STATS EXCEPT !.holds_predicted = frame[t].tmp + 1]
    /\ pc' = [pc EXCEPT ![t] = "L188"]
    /\ UNCHANGED <<OUTCOME_FEEDBACK, invoice, call, evaluations, frame, completed>>

\* Lines 188-196: the call returns.
Return(t) ==
    /\ pc[t] = "L188"
    /\ completed' =
          [ risky |-> completed.risky
                        + (IF frame[t].level \in {"Medium", "High"} THEN 1 ELSE 0),
            holds |-> completed.holds + (IF frame[t].score >= 70 THEN 1 ELSE 0) ]
    /\ frame' = [frame EXCEPT ![t].calls = @ + 1]
    /\ pc' = [pc EXCEPT ![t] = "idle"]
    /\ UNCHANGED seqVars

ConcNext ==
    \E t \in Threads :
        \/ Enter(t)
        \/ Load184(t)
        \/ Skip184(t)
        \/ Store184(t)
        \/ Load186(t)
        \/ Skip186(t)
        \/ Store186(t)
        \/ Return(t)

SpecConc == Init /\ [][ConcNext]_vars

(***************************************************************************)
(* Properties.  What a property expects of a record is written here from   *)
(* the rule table, without the engine's operators.                         *)
(***************************************************************************)
\* The last call was an assessment of `invoice`; Risk is what it returned.
Assessed == call.op \in {"assess_export_risk", "process_pdf"}
Risk == IF call.op = "process_pdf" THEN call.ret.risk_assessment ELSE call.ret

\* A field is absent or empty.
Absent(v) == v = None \/ v = EmptyStr

\* The total_amount values of the model that denote a number > 0.
PositiveTotals == {PyInt(5000), PyFloat(100), PyStr(<<"1", ",", "0", "0", "0">>)}

\* The total_amount values of the model that are absent or not a number.
UnparsableTotals == {None, PyStr(<<"a", "b", "c">>)}

\* The rules that fire on a record, R1..R5 as 1..5.
Fired(inv) ==
    {i \in 1..5 :
        \/ i = 1 /\ Absent(inv.iec_code)
        \/ i = 2 /\ Absent(inv.hsn_code)
        \/ i = 3 /\ Absent(inv.incoterms)
        \/ i = 4 /\ inv.currency = INR
        \/ i = 5 /\ inv.total_amount \notin PositiveTotals}

RuleWeight == <<25, 20, 15, 20, 20>>
RuleReason ==
    << "IEC missing", "HSN missing", "Incoterms missing",
       "Export invoiced in INR", "Invoice value invalid" >>
RuleFix ==
    << "Add valid IEC", "Declare correct HSN", "Specify FOB / CIF",
       "Use permitted foreign currency", "Correct invoice total" >>

RECURSIVE SumWeights(_)
SumWeights(rules) ==
    IF rules = {} THEN 0
    ELSE LET i == CHOOSE j \in rules : TRUE
         IN RuleWeight[i] + SumWeights(rules \ {i})

RuleOf(reason) == CHOOSE i \in 1..5 : RuleReason[i] = reason
Without(seq, x) == SelectSeq(seq, LAMBDA y : y # x)
Count(seq, x) == Cardinality({i \in 1..Len(seq) : seq[i] = x})

\* C1: the risk_score of every assessment is the sum of the weights of
\* exactly the rules that fired on the record (25, 20, 15, 20, 20), clamped
\* to at most 100, and lies in 0..100.
C1_ScoreIsClampedSum ==
    Assessed =>
        /\ Risk.risk_score = Min(SumWeights(Fired(invoice)), 100)
        /\ Risk.risk_score \in 0..100

\* C1 witness: a record on which all five rules fire was assessed at 100.
C1_Witness ==
    /\ Assessed
    /\ Fired(invoice) = 1..5
    /\ Risk.risk_score = 100

\* C2: in every assessment the level is Low iff score < 30, Medium iff
\* 30 <= score < 60, High iff score >= 60, and the decision is the one of
\* the three that belongs to the level.
C2_LevelAndDecision ==
    Assessed =>
        /\ Risk.risk_level = "Low" <=> Risk.risk_score < 30
        /\ Risk.risk_level = "Medium" <=> (30 <= Risk.risk_score /\ Risk.risk_score < 60)
        /\ Risk.risk_level = "High" <=> Risk.risk_score >= 60
        /\ Risk.shipment_decision
              \in {"SAFE_TO_SHIP", "REVIEW_BEFORE_SHIPPING", "DO_NOT_SHIP"}
        /\ Risk.risk_level = "Low" => Risk.shipment_decision = "SAFE_TO_SHIP"
        /\ Risk.risk_level = "Medium" => Risk.shipment_decision = "REVIEW_BEFORE_SHIPPING"
        /\ Risk.risk_level = "High" => Risk.shipment_decision = "DO_NOT_SHIP"

\* C2 witness: an assessment at exactly 60 came out High, DO_NOT_SHIP.
C2_Witness ==
    /\ Assessed
    /\ Risk.risk_score = 60
    /\ Risk.risk_level = "High"
    /\ Risk.shipment_decision = "DO_NOT_SHIP"

\* C3: risk_reasons and fix_suggestions have the same length, entry i of
\* each belongs to the same rule, there is one entry per fired rule, and
\* the entries come in the order R1..R5.
C3_ReasonFixPairing ==
    Assessed =>
        LET reasons == Risk.risk_reasons
            fixes == Risk.fix_suggestions
        IN  /\ Len(reasons) = Len(fixes)
            /\ Len(reasons) = Cardinality(Fired(invoice))
            /\ \A i \in 1..Len(reasons) :
                  /\ \E r \in 1..5 : RuleReason[r] = reasons[i]
                  /\ fixes[i] = RuleFix[RuleOf(reasons[i])]
            /\ \A i, j \in 1..Len(reasons) :
                  i < j => RuleOf(reasons[i]) < RuleOf(reasons[j])
            /\ {RuleOf(reasons[i]) : i \in 1..Len(reasons)} = Fired(invoice)

\* C3 witness: an assessment in which R1, R3 and R5 fired and R2 did not.
C3_Witness ==
    /\ Assessed
    /\ Fired(invoice) \cap {1, 2, 3, 5} = {1, 3, 5}
    /\ Len(Risk.risk_reasons) >= 3

\* The single-field repairs of a record: the rule repaired and the record after.
Repairs(inv) ==
    {<<1, [inv EXCEPT !.iec_code = IEC10]>> : x \in {i \in {1} : Absent(inv.iec_code)}}
    \cup {<<2, [inv EXCEPT !.hsn_code = HSN6]>> : x \in {i \in {2} : Absent(inv.hsn_code)}}
    \cup {<<3, [inv EXCEPT !.incoterms = v]>> :
              v \in {w \in {FOB, XYZ} : Absent(inv.incoterms)}}
    \cup {<<5, [inv EXCEPT !.total_amount = v]>> :
              v \in {w \in PositiveTotals : inv.total_amount \notin PositiveTotals}}

\* C4: supplying one missing field (or a total > 0) with the rest held fixed
\* never increases the score, and the reasons and fixes are the original
\* ones with exactly that rule's pair removed, the others in the same order.
C4_Monotonicity ==
    Assessed =>
        \A rep \in Repairs(invoice) :
            LET after == risk_of(rep[2])
            IN  /\ after.risk_score <= Risk.risk_score
                /\ Count(Risk.risk_reasons, RuleReason[rep[1]]) = 1
                /\ Count(Risk.fix_suggestions, RuleFix[rep[1]]) = 1
                /\ after.risk_reasons = Without(Risk.risk_reasons, RuleReason[rep[1]])
                /\ after.fix_suggestions = Without(Risk.fix_suggestions, RuleFix[rep[1]])

\* C4 witness: an assessed record with four repairable fields.
C4_Witness ==
    /\ Assessed
    /\ {rep[1] : rep \in Repairs(invoice)} = {1, 2, 3, 5}
    /\ invoice.currency = INR

\* C5: a simulate_changes call leaves every field of the base invoice as it was.
C5_SimulateKeepsBase ==
    [][call'.op = "simulate_changes" => invoice' = invoice]_vars

\* C5 witness: after an earlier call, a simulation overrode both fields with
\* values the base does not have.
C5_Witness ==
    /\ call.op = "simulate_changes"
    /\ evaluations >= 2
    /\ call.new_value = PyFloat(100) /\ invoice.total_amount # PyFloat(100)
    /\ call.new_incoterm = XYZ /\ invoice.incoterms # XYZ

IsZero(v) == v.t \in {"int", "float"} /\ v.n = 0

\* The record simulate_changes is said to assess.
Overridden(base, new_value, new_incoterm) ==
    [base EXCEPT
        !.total_amount = IF new_value # None /\ ~IsZero(new_value) THEN new_value ELSE @,
        !.incoterms = IF new_incoterm # Unchanged THEN new_incoterm ELSE @]

\* C6: simulate_changes returns the score and summary of the assessment of
\* the base with total_amount replaced iff new_value is non-null and not
\* zero and incoterms replaced iff new_incoterm is not "UNCHANGED"; with 0
\* and "UNCHANGED" it returns the score of the base itself.
C6_SimulateIsAssessOfOverride ==
    call.op = "simulate_changes" =>
        LET expected == risk_of(Overridden(invoice, call.new_value, call.new_incoterm))
        IN  /\ call.ret.risk_score = expected.risk_score
            /\ call.ret.summary = expected.risk_summary
            /\ (IsZero(call.new_value) /\ call.new_incoterm = Unchanged)
                  => call.ret.risk_score = risk_of(invoice).risk_score

\* C6 witness: a base with a valid total was simulated with 0 and "UNCHANGED".
C6_Witness ==
    /\ call.op = "simulate_changes"
    /\ call.new_value = PyFloat(0)
    /\ call.new_incoterm = Unchanged
    /\ invoice.total_amount \in PositiveTotals

\* The level and score of the assessment a call made.
CallLevel(c) ==
    CASE c.op = "assess_export_risk" -> c.ret.risk_level
      [] c.op = "process_pdf" -> c.ret.risk_assessment.risk_level
      [] c.op = "simulate_changes" -> c.ret.summary[1]
CallScore(c) ==
    CASE c.op = "assess_export_risk" -> c.ret.risk_score
      [] c.op = "process_pdf" -> c.ret.risk_assessment.risk_score
      [] c.op = "simulate_changes" -> c.ret.risk_score

\* C7: each assessment adds 1 to risky_shipments iff its level is Medium or
\* High and 1 to holds_predicted iff its score is >= 70, each on its own;
\* an assess_export_risk call leaves invoices_analyzed and the feedback log
\* as they were.
C7_CounterDeltas ==
    [][ /\ call'.op \in {"assess_export_risk", "process_pdf", "simulate_changes"} =>
            /\ SYSTEM_STATS'.risky_shipments = SYSTEM_STATS.risky_shipments
                  + (IF CallLevel(call') \in {"Medium", "High"} THEN 1 ELSE 0)
            /\ SYSTEM_STATS'.holds_predicted = SYSTEM_STATS.holds_predicted
                  + (IF CallScore(call') >= 70 THEN 1 ELSE 0)
        /\ call'.op \in {"assess_export_risk", "simulate_changes"} =>
            /\ SYSTEM_STATS'.invoices_analyzed = SYSTEM_STATS.invoices_analyzed
            /\ OUTCOME_FEEDBACK' = OUTCOME_FEEDBACK ]_vars

\* C7 witness: one assessment, High below 70: only risky_shipments grew.
C7_Witness ==
    /\ call.op = "assess_export_risk"
    /\ evaluations = 1
    /\ call.ret.risk_level = "High" /\ call.ret.risk_score < 70
    /\ SYSTEM_STATS.risky_shipments = 1
    /\ SYSTEM_STATS.holds_predicted = 0

\* C8: with concurrent callers, once every call has returned, risky_shipments
\* has grown by the number of calls that came out Medium or High and
\* holds_predicted by the number of calls that scored >= 70.
C8_NoLostIncrement ==
    (\A t \in Threads : pc[t] = "idle") =>
        /\ SYSTEM_STATS.risky_shipments = completed.risky
        /\ SYSTEM_STATS.holds_predicted = completed.holds

\* C9 as stated: safe_number gives None for a null or unparsable total, and
\* a record with total_amount 0 is assessed differently from the same
\* record with total_amount absent or unparsable.
C9_ZeroAndAbsentDiffer ==
    (Assessed /\ invoice.total_amount \in UnparsableTotals) =>
        /\ safe_number(invoice.total_amount) = None
        /\ Risk # risk_of([invoice EXCEPT !.total_amount = PyInt(0)])

\* C9 amended: safe_number gives None, never zero, for a null or unparsable
\* total, and a zero total parses to zero; rule R5 fires on both, so the two
\* records get the same assessment.
C9_AbsentIsNoneAndScoredLikeZero ==
    (Assessed /\ invoice.total_amount \in UnparsableTotals) =>
        /\ safe_number(invoice.total_amount) = None
        /\ safe_number(invoice.total_amount) # PyFloat(0)
        /\ safe_number(PyInt(0)) = PyFloat(0)
        /\ Count(Risk.risk_reasons, "Invoice value invalid") = 1
        /\ Risk = risk_of([invoice EXCEPT !.total_amount = PyInt(0)])

\* C9 witness: a record with unparsable total text was assessed.
C9_Witness ==
    /\ Assessed
    /\ invoice.total_amount = PyStr(<<"a", "b", "c">>)
    /\ Len(Risk.risk_reasons) >= 1

\* C10: in a sequential run every counter only grows, holds_predicted <=
\* risky_shipments <= the number of assessments made, and
\* customs_officer_view and store_outcome_feedback leave the counters alone.
C10_CounterOrder ==
    /\ [](/\ SYSTEM_STATS.holds_predicted <= SYSTEM_STATS.risky_shipments
          /\ SYSTEM_STATS.risky_shipments <= evaluations)
    /\ [][ /\ SYSTEM_STATS'.invoices_analyzed >= SYSTEM_STATS.invoices_analyzed
           /\ SYSTEM_STATS'.risky_shipments >= SYSTEM_STATS.risky_shipments
           /\ SYSTEM_STATS'.holds_predicted >= SYSTEM_STATS.holds_predicted
           /\ call'.op \in {"customs_officer_view", "store_outcome_feedback"}
                 => SYSTEM_STATS' = SYSTEM_STATS ]_vars

\* C10 witness: two assessments, one of them risky, none a predicted hold,
\* and then a customs officer view.
C10_Witness ==
    /\ call.op = "customs_officer_view"
    /\ evaluations = 2
    /\ SYSTEM_STATS.risky_shipments = 1
    /\ SYSTEM_STATS.holds_predicted = 0

====
